---- MODULE Spec2Model ----
(***************************************************************************)
(* Model of the group-chat server (server.js, kept as src/unnamed/part_000) *)
(* and of the schema written by src/setup-database.js.                     *)
(*                                                                         *)
(* The server holds ONE mysql2 connection (`db`), so the statements of all *)
(* handlers pass through one first-in first-out command queue: a statement *)
(* is executed by MySQL (DbExecute) and, later, its promise settles and    *)
(* the awaiting handler runs on to its next await or to its end (the       *)
(* ...Resolved / ...Rejected actions).  Between the two, any other event   *)
(* of the process may be handled.  Rooms are the socket.io rooms           *)
(* `group_<id>`; a disconnecting socket leaves all its rooms before its    *)
(* 'disconnect' handler runs.                                              *)
(*                                                                         *)
(* The messages table starts empty and only the default group exists.  A   *)
(* run fixes which script created the messages table: setup-database.js    *)
(* (no foreign key) or createTables of the server (foreign key on          *)
(* group_id).                                                              *)
(***************************************************************************)
EXTENDS Integers, Sequences, FiniteSets, TLC

\* ------------------------------------------------------------------ bounds
\* Total number of HTTP requests / send_message events of one run.
MaxReq == 2
\* The same for the runs with one handler at a time.
MaxSerial == 1
\* The same for the runs of the HTTP routes alone.
MaxStoreReq == 3
\* The same for the runs that compare the two ingress paths.
MaxPair == 2
\* Highest value of the database clock (CURRENT_TIMESTAMP, whole seconds).
MaxClock == 1

\* ------------------------------------------------------------- input sets
\* JavaScript values are written as strings: undefined, true, false.
Undefined == "undefined"
True == "true"
False == "false"
\* socket ids the transport may hand out; an id is used for one connection.
Conns == {"c1", "c2"}
\* group ids a client may name (route parameter :id, join_group argument,
\* data.groupId); only the default group exists.
GroupIds == {"1", "2"}
\* rows of the groups table: the default group 'Fun Friday Group'.
UserGroups == {"1"}
\* request bodies / send_message payloads (without the group id): the text,
\* the sender name and the anonymity flag a client sends, which the POST
\* body carries as message, sender_name, is_anonymous and the send_message
\* payload as message, senderName, isAnonymous.
PlainBody == [message |-> "hi", sender_name |-> Undefined, is_anonymous |-> Undefined]
Bodies ==
  { PlainBody,
    [message |-> "hi", sender_name |-> "Alice",   is_anonymous |-> False],
    [message |-> "",   sender_name |-> Undefined, is_anonymous |-> True],
    [message |-> Undefined, sender_name |-> "Alice", is_anonymous |-> True] }
NoBody == [message |-> Undefined, sender_name |-> Undefined, is_anonymous |-> Undefined]

VARIABLES
  schema,    \* which script created the messages table: "setup" | "server"
  messages,  \* rows of the messages table, in commit order
  rooms,     \* socket.io rooms: group id -> set of socket ids
  sockets,   \* socket id -> "idle" | "connected" | "disconnected"
  dbQueue,   \* command queue of the single mysql2 connection
  reqs,      \* the handlers started so far (requests and send_message events)
  inbox,     \* socket id -> sequence of events emitted to that socket
  journal    \* history: socket id -> the groups for which the last
             \* join_group / leave_group event of the open socket was a join

vars == <<schema, messages, rooms, sockets, dbQueue, reqs, inbox, journal>>

\* --------------------------------------------------------------- helpers
Range(s) == {s[i] : i \in 1..Len(s)}

\* JavaScript `a || b` on the values the handlers apply it to.
Falsy(v) == v \in {Undefined, False, ""}
Or(a, b) == IF Falsy(a) THEN b ELSE a

\* mysql2 execute(): a bind parameter that is undefined throws before the
\* statement is sent.
BindOk(params) == \A i \in 1..Len(params) : params[i] # Undefined

\* The four bind parameters of the INSERT, as both handlers build them.
InsertParams(id, body) ==
  <<id, Or(body.sender_name, "Anonymous"), body.message, Or(body.is_anonymous, True)>>

\* app.post: `const { id } = req.params`, `const { message, sender_name,
\* is_anonymous } = req.body`, and the parameter array of its INSERT.
PostParams(id, body) == InsertParams(id, body)

\* Variant: a send_message handler that looks for sender_name, a key its
\* payload does not carry.
SendParamsNoSender(groupId, data) ==
  InsertParams(groupId, [data EXCEPT !.sender_name = Undefined])

\* send_message: `const { groupId, message, senderName, isAnonymous } =
\* data`, and the parameter array of its INSERT.
SendParams(groupId, data) == InsertParams(groupId, data)

\* The bind parameters of the INSERT of a handler of either kind.
Params(kind, gid, body) ==
  IF kind = "post" THEN PostParams(gid, body) ELSE SendParams(gid, body)

\* Variant: a counter that hands out the same id again.
AutoIncrementStuck(msgs) == IF msgs = <<>> THEN Len(msgs) + 1 ELSE msgs[Len(msgs)].id

\* id INT AUTO_INCREMENT PRIMARY KEY
AutoIncrement(msgs) == Len(msgs) + 1

\* created_at TIMESTAMP DEFAULT CURRENT_TIMESTAMP: the clock does not run
\* backwards, and two inserts may fall into the same second.
Timestamps(msgs) ==
  (IF msgs = <<>> THEN 0 ELSE msgs[Len(msgs)].created_at) .. MaxClock

\* The constraint on group_id of the messages table in use:
\* setup-database.js declares `group_id INT NOT NULL` and no foreign key;
\* createTables declares FOREIGN KEY (group_id) REFERENCES user_groups(id).
ForeignKeyOk(sch, gid) == sch = "server" => gid \in UserGroups

\* is_anonymous BOOLEAN: a JavaScript boolean is stored as TINYINT 1 / 0.
ToTinyint(b) == IF b = True THEN 1 ELSE 0

NewRow(msgs, params, ts) ==
  [id |-> AutoIncrement(msgs), group_id |-> params[1], sender_name |-> params[2],
   message |-> params[3], is_anonymous |-> ToTinyint(params[4]), created_at |-> ts]

\* SELECT * FROM messages WHERE id = ?
SelectById(msgs, id) == SelectSeq(msgs, LAMBDA m : m.id = id)

\* SELECT * FROM messages WHERE group_id = ? ORDER BY created_at ASC:
\* every order of the group's rows that is sorted by created_at (SQL leaves
\* the order of rows with equal created_at open).
GroupRows(msgs, gid) == {m \in Range(msgs) : m.group_id = gid}
SelectByGroup(msgs, gid) ==
  LET rows == GroupRows(msgs, gid)
      n == Cardinality(rows)
  IN {s \in [1..n -> rows] :
        /\ \A i, j \in 1..n : i # j => s[i] # s[j]
        /\ \A i, j \in 1..n : i < j => s[i].created_at <= s[j].created_at}

\* Variant: join as a toggle of the membership.
JoinToggle(rs, c, g) ==
  [rs EXCEPT ![g] = IF c \in @ THEN @ \ {c} ELSE @ \cup {c}]

\* Variant: a closing socket that stays in its rooms.
RemoveConnectionKeeps(rs, c) == rs

\* Variant: a leave that takes the socket out of every room.
LeaveAll(rs, c, g) == [h \in DOMAIN rs |-> rs[h] \ {c}]

\* socket.join / socket.leave / the leaveAll of a closing socket
Join(rs, c, g) == [rs EXCEPT ![g] = @ \cup {c}]
Leave(rs, c, g) == [rs EXCEPT ![g] = @ \ {c}]
RemoveConnection(rs, c) == [g \in DOMAIN rs |-> rs[g] \ {c}]

\* Variant: an emit that reaches one socket of the room only.
EmitFirstOnly(ib, members, ev) ==
  [c \in DOMAIN ib |->
     IF members # {} /\ c = CHOOSE m \in members : TRUE THEN Append(ib[c], ev) ELSE ib[c]]

\* Variant: io.emit, which reaches every socket whatever its rooms.
EmitEveryone(ib, members, ev) == [c \in DOMAIN ib |-> Append(ib[c], ev)]

\* io.to(room).emit(event, data): one packet to every socket in the room.
Emit(ib, members, ev) ==
  [c \in DOMAIN ib |-> IF c \in members THEN Append(ib[c], ev) ELSE ib[c]]

\* newMessage[0]: the first row of a result, undefined when there is none.
NoRow ==
  [id |-> 0, group_id |-> Undefined, sender_name |-> Undefined,
   message |-> Undefined, is_anonymous |-> 0, created_at |-> 0]
First(rows) == IF rows = <<>> THEN NoRow ELSE rows[1]

\* A handler that has just been started.
NewReq(kind, c, gid, body) ==
  [kind |-> kind, socket |-> c, groupId |-> gid, body |-> body,
   pc |-> "start", error |-> "", committed |-> 0, insertId |-> 0,
   emitted |-> FALSE, atCommit |-> {},
   status |-> 0, rows |-> <<>>]

\* A statement handed to db.execute.
Command(r, sql) ==
  [req |-> r, sql |-> sql, executed |-> FALSE, err |-> "", insertId |-> 0, rows |-> <<>>]

\* Variant: a catch block that answers with res.json({error}) and sets no
\* status, so the error payload goes out with 200.
CatchAnswersOk(q, where) ==
  [q EXCEPT !.pc = "done", !.error = where, !.atCommit = {},
            !.status = IF q.kind = "socket" THEN 0 ELSE 200]

\* Variant: a catch block that only logs on every path and sends no
\* response.
CatchLogsOnly(q, where) ==
  [q EXCEPT !.pc = "done", !.error = where, !.atCommit = {}, !.status = 0]

\* The catch block of a handler: the POST and GET routes answer 500 with
\* {error}; the send_message handler only logs.
Catch(q, where) ==
  [q EXCEPT !.pc = "done", !.error = where, !.atCommit = {},
            !.status = IF q.kind = "socket" THEN 0 ELSE 500]

\* ------------------------------------------------------------------ Init
Init ==
  /\ schema \in {"setup", "server"}
  /\ messages = <<>>
  /\ rooms = [g \in GroupIds |-> {}]
  /\ sockets = [c \in Conns |-> "idle"]
  /\ dbQueue = <<>>
  /\ reqs = <<>>
  /\ inbox = [c \in Conns |-> <<>>]
  /\ journal = [c \in Conns |-> {}]

\* ------------------------------------------------------ connection events
\* io.on('connection')
Connect(c) ==
  /\ sockets[c] = "idle"
  /\ sockets' = [sockets EXCEPT ![c] = "connected"]
  /\ UNCHANGED <<journal, schema, messages, rooms, dbQueue, reqs, inbox>>

\* socket.on('join_group')
JoinGroup(c, g) ==
  /\ sockets[c] = "connected"
  /\ rooms' = Join(rooms, c, g)
  /\ journal' = [journal EXCEPT ![c] = @ \cup {g}]
  /\ UNCHANGED <<schema, messages, sockets, dbQueue, reqs, inbox>>

\* socket.on('leave_group')
LeaveGroup(c, g) ==
  /\ sockets[c] = "connected"
  /\ rooms' = Leave(rooms, c, g)
  /\ journal' = [journal EXCEPT ![c] = @ \ {g}]
  /\ UNCHANGED <<schema, messages, sockets, dbQueue, reqs, inbox>>

\* Variant: a disconnect handler that withdraws the statements its socket's
\* send_message handlers still have in the queue.
DisconnectCancels(c) ==
  /\ sockets[c] = "connected"
  /\ sockets' = [sockets EXCEPT ![c] = "disconnected"]
  /\ rooms' = RemoveConnection(rooms, c)
  /\ journal' = [journal EXCEPT ![c] = {}]
  /\ dbQueue' = SelectSeq(dbQueue, LAMBDA cmd : reqs[cmd.req].socket # c)
  /\ UNCHANGED <<schema, messages, reqs, inbox>>

\* transport close: the socket leaves all rooms, then socket.on('disconnect')
Disconnect(c) ==
  /\ sockets[c] = "connected"
  /\ sockets' = [sockets EXCEPT ![c] = "disconnected"]
  /\ rooms' = RemoveConnection(rooms, c)
  /\ journal' = [journal EXCEPT ![c] = {}]
  /\ UNCHANGED <<schema, messages, dbQueue, reqs, inbox>>

\* ------------------------------------------------------------- handlers
\* Variant: broadcast first, persist afterwards.
SubmitBroadcastFirst(kind, c, gid, body) ==
  LET r == Len(reqs) + 1
      q == NewReq(kind, c, gid, body)
      row == NewRow(messages, Params(kind, gid, body), 0)
      ev == [event |-> "new_message", room |-> gid, data |-> row, req |-> r]
  IN /\ IF BindOk(Params(kind, gid, body))
        THEN /\ reqs' = Append(reqs, [q EXCEPT !.pc = "insert"])
             /\ dbQueue' = Append(dbQueue, Command(r, "insert"))
             /\ inbox' = Emit(inbox, rooms[gid], ev)
        ELSE /\ reqs' = Append(reqs, Catch(q, "bind"))
             /\ UNCHANGED <<dbQueue, inbox>>
     /\ UNCHANGED <<journal, schema, messages, rooms, sockets>>

\* Variant: a send_message handler that first joins its socket to the room
\* it writes to.
SubmitJoins(kind, c, gid, body) ==
  LET r == Len(reqs) + 1
      q == NewReq(kind, c, gid, body)
  IN /\ IF BindOk(Params(kind, gid, body))
        THEN /\ reqs' = Append(reqs, [q EXCEPT !.pc = "insert"])
             /\ dbQueue' = Append(dbQueue, Command(r, "insert"))
        ELSE /\ reqs' = Append(reqs, Catch(q, "bind"))
             /\ dbQueue' = dbQueue
     /\ rooms' = IF kind = "socket" /\ gid \in DOMAIN rooms THEN Join(rooms, c, gid) ELSE rooms
     /\ UNCHANGED <<journal, schema, messages, sockets, inbox>>

\* The synchronous part of both submit handlers, up to the first await:
\* db.execute(INSERT ...) either throws on an undefined bind parameter
\* (caught at once) or queues the statement.
Submit(kind, c, gid, body) ==
  LET r == Len(reqs) + 1
      q == NewReq(kind, c, gid, body)
  IN /\ IF BindOk(Params(kind, gid, body))
        THEN /\ reqs' = Append(reqs, [q EXCEPT !.pc = "insert"])
             /\ dbQueue' = Append(dbQueue, Command(r, "insert"))
        ELSE /\ reqs' = Append(reqs, Catch(q, "bind"))
             /\ dbQueue' = dbQueue
     /\ UNCHANGED <<journal, schema, messages, rooms, sockets, inbox>>

\* app.post('/api/groups/:id/messages'), up to `await db.execute(INSERT)`
PostMessage(id, body) == Submit("post", "http", id, body)

\* socket.on('send_message'), up to `await db.execute(INSERT)`
SendMessage(c, gid, body) ==
  /\ sockets[c] = "connected"
  /\ Submit("socket", c, gid, body)

\* app.get('/api/groups/:id/messages'), up to `await db.execute(SELECT)`
GetMessages(id) ==
  /\ reqs' = Append(reqs, [NewReq("get", "http", id, NoBody) EXCEPT !.pc = "list"])
  /\ dbQueue' = Append(dbQueue, Command(Len(reqs) + 1, "list"))
  /\ UNCHANGED <<journal, schema, messages, rooms, sockets, inbox>>

\* ------------------------------------------------------------ the store
\* Variant: a pool of connections, which works on any queued statement.
ReadyAny(queue) == DOMAIN queue

\* `db = await mysql.createConnection(dbConfig)`: one connection, which
\* works on the statement at the head of its queue and on no other.
Ready(queue) == IF queue = <<>> THEN {} ELSE {1}
Remove(queue, i) == SubSeq(queue, 1, i - 1) \o SubSeq(queue, i + 1, Len(queue))

\* MySQL executes a statement of the connection's queue.  Any statement may
\* fail because the store cannot be reached; an INSERT also fails on the
\* foreign key of the table in use.  A successful INSERT commits the row
\* (autocommit); the handler keeps, while it runs, who was subscribed then.
DbExecute ==
  /\ \E i \in Ready(dbQueue) :
       LET cmd == dbQueue[i]
           q == reqs[cmd.req]
           Done(c) == dbQueue' = [dbQueue EXCEPT ![i] = [c EXCEPT !.executed = TRUE]]
       IN /\ ~cmd.executed
          /\ \/ /\ Done([cmd EXCEPT !.err = "ECONNREFUSED"])
                /\ UNCHANGED <<messages, reqs>>
             \/ /\ cmd.sql = "insert"
                /\ ~ForeignKeyOk(schema, q.groupId)
                /\ Done([cmd EXCEPT !.err = "ER_NO_REFERENCED_ROW"])
                /\ UNCHANGED <<messages, reqs>>
             \/ /\ cmd.sql = "insert"
                /\ ForeignKeyOk(schema, q.groupId)
                /\ \E ts \in Timestamps(messages) :
                     messages' = Append(messages,
                                        NewRow(messages, Params(q.kind, q.groupId, q.body), ts))
                /\ Done([cmd EXCEPT !.insertId = AutoIncrement(messages)])
                /\ reqs' = [reqs EXCEPT ![cmd.req].committed = AutoIncrement(messages),
                                        ![cmd.req].atCommit = rooms[q.groupId]]
             \/ /\ cmd.sql = "select"
                /\ Done([cmd EXCEPT !.rows = SelectById(messages, q.insertId)])
                /\ UNCHANGED <<messages, reqs>>
             \/ /\ cmd.sql = "list"
                /\ \E rows \in SelectByGroup(messages, q.groupId) :
                     Done([cmd EXCEPT !.rows = rows])
                /\ UNCHANGED <<messages, reqs>>
  /\ UNCHANGED <<journal, schema, rooms, sockets, inbox>>

\* The statements whose promise can settle now, and how.
Settled(i, sql, ok) ==
  /\ i \in Ready(dbQueue)
  /\ dbQueue[i].executed
  /\ (dbQueue[i].err = "") = ok
  /\ sql # "" => dbQueue[i].sql = sql

\* Variant: a catch block that still emits to the room.
RejectedEmits ==
  /\ \E i \in DOMAIN dbQueue :
       LET r == dbQueue[i].req
           ev == [event |-> "new_message", room |-> reqs[r].groupId,
                  data |-> NoRow, req |-> r]
       IN /\ Settled(i, "", FALSE)
          /\ reqs' = [reqs EXCEPT ![r] = Catch(@, dbQueue[i].sql)]
          /\ dbQueue' = Remove(dbQueue, i)
          /\ inbox' = IF reqs[r].kind = "get" THEN inbox
                      ELSE Emit(inbox, rooms[reqs[r].groupId], ev)
  /\ UNCHANGED <<journal, schema, messages, rooms, sockets>>

\* The promise of a statement rejects: the handler's catch block.
Rejected ==
  /\ \E i \in DOMAIN dbQueue :
       /\ Settled(i, "", FALSE)
       /\ reqs' = [reqs EXCEPT ![dbQueue[i].req] = Catch(@, dbQueue[i].sql)]
       /\ dbQueue' = Remove(dbQueue, i)
  /\ UNCHANGED <<journal, schema, messages, rooms, sockets, inbox>>

\* Variant: a handler that sends its INSERT a second time before it reads
\* the row back.
InsertResolvedAgain ==
  /\ \E i \in DOMAIN dbQueue :
       LET r == dbQueue[i].req
       IN /\ Settled(i, "insert", TRUE)
          /\ reqs' = [reqs EXCEPT ![r].pc = IF reqs[r].insertId = 0 THEN "insert" ELSE "select",
                                  ![r].insertId = dbQueue[i].insertId]
          /\ dbQueue' = Append(Remove(dbQueue, i),
                               Command(r, IF reqs[r].insertId = 0 THEN "insert" ELSE "select"))
  /\ UNCHANGED <<journal, schema, messages, rooms, sockets, inbox>>

\* `const [result] = await db.execute(INSERT)` resolves: the handler issues
\* the read-back SELECT with result.insertId.
InsertResolved ==
  /\ \E i \in DOMAIN dbQueue :
       LET r == dbQueue[i].req
       IN /\ Settled(i, "insert", TRUE)
          /\ reqs' = [reqs EXCEPT ![r].pc = "select", ![r].insertId = dbQueue[i].insertId]
          /\ dbQueue' = Append(Remove(dbQueue, i), Command(r, "select"))
  /\ UNCHANGED <<journal, schema, messages, rooms, sockets, inbox>>

\* `const [newMessage] = await db.execute(SELECT)` resolves: the handler
\* emits newMessage[0] to the room and, on the POST route, answers with it.
SelectResolved ==
  /\ \E i \in DOMAIN dbQueue :
       LET r == dbQueue[i].req
           q == reqs[r]
           row == First(dbQueue[i].rows)
           ev == [event |-> "new_message", room |-> q.groupId, data |-> row, req |-> r]
       IN /\ Settled(i, "select", TRUE)
          /\ inbox' = Emit(inbox, rooms[q.groupId], ev)
          /\ reqs' = [reqs EXCEPT ![r] =
                        [q EXCEPT !.pc = "done", !.emitted = TRUE, !.atCommit = {},
                                  !.status = IF q.kind = "post" THEN 200 ELSE 0,
                                  !.rows = IF q.kind = "post" THEN <<row>> ELSE <<>>]]
          /\ dbQueue' = Remove(dbQueue, i)
  /\ UNCHANGED <<journal, schema, messages, rooms, sockets>>

\* `const [messages] = await db.execute(SELECT ... ORDER BY)` resolves:
\* res.json(messages)
ListResolved ==
  /\ \E i \in DOMAIN dbQueue :
       /\ Settled(i, "list", TRUE)
       /\ reqs' = [reqs EXCEPT ![dbQueue[i].req] =
                     [@ EXCEPT !.pc = "done", !.status = 200, !.rows = dbQueue[i].rows]]
       /\ dbQueue' = Remove(dbQueue, i)
  /\ UNCHANGED <<journal, schema, messages, rooms, sockets, inbox>>

\* No handler is between its start and its end.
Quiet == dbQueue = <<>>

\* Submits on both ingress paths, with the payloads and group ids the
\* clients of a run use.
Submits(bodies, gids) ==
  \/ \E id \in GroupIds, body \in bodies : PostMessage(id, body)
  \/ \E c \in Conns, gid \in gids, body \in bodies : SendMessage(c, gid, body)

Reads == \E id \in GroupIds : GetMessages(id)

Membership ==
  \/ \E c \in Conns : Connect(c)
  \/ \E c \in Conns, g \in GroupIds : JoinGroup(c, g)
  \/ \E c \in Conns, g \in GroupIds : LeaveGroup(c, g)
  \/ \E c \in Conns : Disconnect(c)

\* The store and the continuations of the submit handlers.
SettleSubmits ==
  \/ DbExecute
  \/ Rejected
  \/ InsertResolved
  \/ SelectResolved

Settle ==
  \/ SettleSubmits
  \/ ListResolved

\* Fan-out: concurrent handlers and connections, one well-formed payload.
Next ==
  \/ Len(reqs) < MaxReq /\ Submits({PlainBody}, GroupIds)
  \/ Membership
  \/ SettleSubmits

Spec == Init /\ [][Next]_vars

\* Validation and field handling: one handler at a time, every payload and
\* an absent group id.
NextSerial ==
  \/ Len(reqs) < MaxSerial /\ Quiet /\ (Submits(Bodies, GroupIds \cup {Undefined}) \/ Reads)
  \/ Membership
  \/ Settle

SpecSerial == Init /\ [][NextSerial]_vars

\* The same runs when every statement the store has received is executed
\* and its promise settles, and the event loop runs the continuation of
\* every settled promise.
SpecLive ==
  /\ Init /\ [][NextSerial]_vars
  /\ WF_vars(DbExecute)
  /\ WF_vars(Rejected)
  /\ WF_vars(InsertResolved)
  /\ WF_vars(SelectResolved)
  /\ WF_vars(ListResolved)

\* The two ingress paths side by side: one handler at a time, every
\* payload, connections that join and leave between the handlers.
NextPair ==
  \/ Len(reqs) < MaxPair /\ Quiet /\ Submits(Bodies, GroupIds)
  \/ Quiet /\ Membership
  \/ SettleSubmits

SpecPair == Init /\ [][NextPair]_vars

\* The store under concurrent HTTP requests, no socket connected.
NextStore ==
  \/ Len(reqs) < MaxStoreReq
       /\ ((\E id \in GroupIds, body \in {PlainBody} : PostMessage(id, body)) \/ Reads)
  \/ Settle

SpecStore == Init /\ [][NextStore]_vars

\* ================================================================ claims
\* Shorthands for the claims below.
Submitted == {r \in DOMAIN reqs : reqs[r].kind # "get"}
Events(c) == Range(inbox[c])
Delivered(r) == {c \in Conns : \E ev \in Events(c) : ev.req = r}
Ascending(ids) == \A i, j \in DOMAIN ids : i < j => ids[i] < ids[j]
Ids(rows) == [i \in DOMAIN rows |-> rows[i].id]

\* C1: durability before visibility.  On both ingress paths, whatever has
\* been delivered to a connection as new_message is a committed row of the
\* messages table, and every listing of the group it was delivered for
\* contains it.
C1_DurabilityBeforeVisibility ==
  \A c \in Conns : \A ev \in Events(c) :
     /\ ev.data \in Range(messages)
     /\ \A listing \in SelectByGroup(messages, ev.room) : ev.data \in Range(listing)

\* C1 witness: one message of each ingress path has been delivered.
C1_Witness ==
  /\ \E c \in Conns : \E ev \in Events(c) : reqs[ev.req].kind = "post"
  /\ \E c \in Conns : \E ev \in Events(c) : reqs[ev.req].kind = "socket"

\* C2: a submit whose INSERT failed (foreign key or store unreachable), on
\* either ingress path, has no new_message delivered to any connection.
C2_NoFanOutOnAppendFailure ==
  \A r \in Submitted : reqs[r].error = "insert" => Delivered(r) = {}

\* C2 witness: an INSERT has failed on each path for a group that has a
\* subscriber, one of them on the foreign key.
C2_Witness ==
  \E r1, r2 \in Submitted :
     /\ reqs[r1].kind = "post" /\ reqs[r2].kind = "socket"
     /\ reqs[r1].error = "insert" /\ reqs[r2].error = "insert"
     /\ rooms[reqs[r1].groupId] # {} /\ rooms[reqs[r2].groupId] # {}
     /\ schema = "server"
     /\ reqs[r1].groupId \notin UserGroups

\* C3 (as claimed): a submit with empty text or without a group id is
\* rejected before the store is asked: it commits no row, is delivered to
\* nobody, and ends as a rejection raised before any statement was sent.
C3_InvalidMessageRejected ==
  \A r \in Submitted :
     (reqs[r].body.message = "" \/ reqs[r].groupId = Undefined)
       => /\ reqs[r].committed = 0
          /\ Delivered(r) = {}
          /\ reqs[r].pc = "done" => reqs[r].error = "bind"

\* C4 (as claimed): a submit naming a group that does not exist stores no
\* row and causes no fan-out, and every stored message references an
\* existing group.
C4_UnknownGroupRejected ==
  /\ \A r \in Submitted :
        (reqs[r].groupId # Undefined /\ reqs[r].groupId \notin UserGroups)
          => reqs[r].committed = 0 /\ Delivered(r) = {}
  /\ \A m \in Range(messages) : m.group_id \in UserGroups

\* C5: committed rows have distinct ids, and ids grow with the commit order
\* (the order of the rows in `messages`), whatever the interleaving of the
\* handlers that inserted them.
C5_IdsFollowCommitOrder ==
  \A i, j \in DOMAIN messages :
     /\ i # j => messages[i].id # messages[j].id
     /\ messages[i].id < messages[j].id <=> i < j

\* C5 witness: two handlers of different ingress paths have both committed
\* a row for the same group and neither has finished.
C5_Witness ==
  \E r1, r2 \in Submitted :
     /\ reqs[r1].kind = "post" /\ reqs[r2].kind = "socket"
     /\ reqs[r1].groupId = reqs[r2].groupId
     /\ reqs[r1].committed # 0 /\ reqs[r2].committed # 0
     /\ reqs[r1].pc # "done" /\ reqs[r2].pc # "done"

\* C6 (as claimed): a retrieval returns exactly the group's committed rows
\* in ascending id, also when rows share a created_at.
C6_ListOrderedById ==
  \A r \in DOMAIN reqs :
     (reqs[r].kind = "get" /\ reqs[r].status = 200)
       => /\ Ascending(Ids(reqs[r].rows))
          /\ Range(reqs[r].rows) \subseteq GroupRows(messages, reqs[r].groupId)

\* C7: what a connection receives as new_message is in ascending message
\* id, per group and overall.
C7_DeliveryInPersistedOrder ==
  \A c \in Conns : \A i, j \in DOMAIN inbox[c] :
     i < j => inbox[c][i].data.id < inbox[c][j].data.id

\* C7 witness: a connection has received two messages of one group, sent
\* on different ingress paths.
C7_Witness ==
  \E c \in Conns : \E i, j \in DOMAIN inbox[c] :
     /\ i < j
     /\ inbox[c][i].room = inbox[c][j].room
     /\ reqs[inbox[c][i].req].kind # reqs[inbox[c][j].req].kind

\* The step in which handler r emits its message.
FanOut(r) == r \in DOMAIN reqs /\ ~reqs[r].emitted /\ reqs'[r].emitted
Receives(c, r) == \E ev \in Range(inbox'[c]) : ev.req = r

C9_DisconnectClearsMemberships ==
  /\ [](\A c \in Conns : sockets[c] = "disconnected" => \A g \in GroupIds : c \notin rooms[g])
  /\ [][\A c \in Conns : sockets[c] = "disconnected" => inbox'[c] = inbox[c]]_vars

\* C9 witness: a connection that had received a message of a group has
\* disconnected, and a later message of that group was fanned out.
C9_Witness ==
  \E c \in Conns : \E ev \in Events(c) : \E r \in Submitted :
     /\ sockets[c] = "disconnected"
     /\ reqs[r].emitted /\ reqs[r].groupId = ev.room
     /\ reqs[r].committed > ev.data.id
     /\ c \notin Delivered(r)

\* C10: join_group and leave_group are idempotent: from every reachable
\* room table, doing either twice gives the room table of doing it once.
C10_JoinLeaveIdempotent ==
  \A c \in Conns, g \in GroupIds :
     /\ Join(Join(rooms, c, g), c, g) = Join(rooms, c, g)
     /\ Leave(Leave(rooms, c, g), c, g) = Leave(rooms, c, g)

\* C10 witness: a connected socket is in one room, where a second join can
\* follow, and not in the other, where a leave without a join can.
C10_Witness ==
  \E c \in Conns, g1, g2 \in GroupIds :
     sockets[c] = "connected" /\ c \in rooms[g1] /\ c \notin rooms[g2]

\* The row a handler has committed, NoRow while it has committed none.
RowOf(r) == IF reqs[r].committed = 0 THEN NoRow ELSE First(SelectById(messages, reqs[r].committed))

\* C11 (as claimed): the committed row carries the submitted fields: the
\* group id and the text as submitted, the sender name as submitted or
\* "Anonymous" when none was given, and is_anonymous as the submitted
\* boolean (true when none was given).
C11_RowCarriesSubmittedFields ==
  \A r \in Submitted :
     reqs[r].committed # 0 =>
       LET b == reqs[r].body
           row == RowOf(r)
       IN /\ row.group_id = reqs[r].groupId
          /\ row.message = b.message
          /\ row.sender_name = (IF b.sender_name = Undefined THEN "Anonymous" ELSE b.sender_name)
          /\ b.is_anonymous # Undefined => row.is_anonymous = ToTinyint(b.is_anonymous)

\* C12 (as claimed): a POST that was answered with an error has committed
\* no row.
C12_ErrorMeansNothingCommitted ==
  \A r \in Submitted :
     (reqs[r].kind = "post" /\ reqs[r].status = 500) => reqs[r].committed = 0

SameMessage(a, b) ==
  /\ a.group_id = b.group_id
  /\ a.sender_name = b.sender_name
  /\ a.message = b.message
  /\ a.is_anonymous = b.is_anonymous

\* C14: a POST and a send_message with the same group id, sender name, text
\* and anonymity flag are rejected for their parameters alike and, when
\* both commit, commit the same message; a commit on either path needs the
\* group to satisfy the table's constraint; the fan-out of either path
\* reaches exactly the connections in the group's room; and a POST answered
\* with 200 carries the row it committed, which is the row its fan-out
\* delivered.
C14_IngressPathsAgree ==
  /\ [](\A r1, r2 \in Submitted :
          (/\ reqs[r1].kind = "post" /\ reqs[r2].kind = "socket"
           /\ reqs[r1].groupId = reqs[r2].groupId
           /\ reqs[r1].body = reqs[r2].body)
          => /\ (reqs[r1].error = "bind") <=> (reqs[r2].error = "bind")
             /\ (reqs[r1].committed # 0 /\ reqs[r2].committed # 0)
                  => SameMessage(RowOf(r1), RowOf(r2)))
  /\ [](\A r \in Submitted :
          reqs[r].committed # 0 => ForeignKeyOk(schema, reqs[r].groupId))
  /\ [](\A r \in Submitted :
          (reqs[r].kind = "post" /\ reqs[r].status = 200)
          => /\ reqs[r].rows = <<RowOf(r)>>
             /\ \A c \in Conns : \A ev \in Events(c) :
                  ev.req = r => ev.data = reqs[r].rows[1])
  /\ [][\A r \in DOMAIN reqs : FanOut(r) =>
          {c \in Conns : inbox'[c] # inbox[c]} = rooms[reqs[r].groupId]]_vars

\* C14 witness: a POST and a send_message with the same named sender, text
\* and flag have both committed and reached the same, non-empty set of
\* connections, and the POST was answered with its row.
C14_Witness ==
  \E r1, r2 \in Submitted :
     /\ reqs[r1].kind = "post" /\ reqs[r2].kind = "socket"
     /\ reqs[r1].groupId = reqs[r2].groupId
     /\ reqs[r1].body = reqs[r2].body
     /\ reqs[r1].body.sender_name = "Alice"
     /\ reqs[r1].emitted /\ reqs[r2].emitted
     /\ reqs[r1].status = 200
     /\ Delivered(r1) = Delivered(r2) /\ Delivered(r1) # {}

\* The handler r ends in its catch block in this step.
Fails(r) ==
  /\ r \in DOMAIN reqs' /\ reqs'[r].error # ""
  /\ r \in DOMAIN reqs => reqs[r].error = ""

\* C15: a POST whose INSERT or read-back failed is answered with status 500
\* and an error payload instead of a row; a send_message that failed is not
\* answered and its message is delivered to no connection; and the step in
\* which a handler fails delivers nothing and changes no connection and no
\* room.
C15_FailureSurfacedPerPath ==
  /\ [](\A r \in Submitted :
          reqs[r].error # "" =>
            /\ reqs[r].pc = "done"
            /\ Delivered(r) = {}
            /\ IF reqs[r].kind = "post"
               THEN reqs[r].status = 500 /\ reqs[r].rows = <<>>
               ELSE reqs[r].status = 0)
  /\ [][\A r \in DOMAIN reqs' : Fails(r) =>
          /\ inbox' = inbox
          /\ sockets' = sockets
          /\ rooms' = rooms]_vars

\* C15 witness: a POST was answered with 500, and a send_message failed
\* while its sender stayed connected and subscribed to the group it wrote
\* to, and received nothing.
C15_Witness ==
  \E r1, r2 \in Submitted :
     /\ reqs[r1].kind = "post" /\ reqs[r1].error # "" /\ reqs[r1].status = 500
     /\ reqs[r2].kind = "socket" /\ reqs[r2].error # ""
     /\ sockets[reqs[r2].socket] = "connected"
     /\ reqs[r2].socket \in rooms[reqs[r2].groupId]
     /\ inbox[reqs[r2].socket] = <<>>

\* The handlers that have committed a row.
Committers == {r \in Submitted : reqs[r].committed # 0}

\* C16: the messages table holds exactly one row for every handler that has
\* committed, a handler that ended without an error has committed, and no
\* step does anything to the table but append one row: the rows it held
\* stay as they were.
C16_OneRowPerAcceptedSend ==
  /\ [](/\ Len(messages) = Cardinality(Committers)
        /\ \A r \in Committers :
             Cardinality({i \in DOMAIN messages : messages[i].id = reqs[r].committed}) = 1
        /\ \A r1, r2 \in Committers :
             r1 # r2 => reqs[r1].committed # reqs[r2].committed
        /\ \A r \in Submitted :
             (reqs[r].pc = "done" /\ reqs[r].error = "") => r \in Committers)
  /\ [][/\ Len(messages) <= Len(messages') /\ Len(messages') <= Len(messages) + 1
        /\ SubSeq(messages', 1, Len(messages)) = messages]_vars

\* C16 witness: two sends were accepted and answered, one on each path, and
\* the table holds their two rows.
C16_Witness ==
  \E r1, r2 \in Committers :
     /\ reqs[r1].kind = "post" /\ reqs[r2].kind = "socket"
     /\ reqs[r1].emitted /\ reqs[r2].emitted
     /\ Len(messages) = 2
     /\ messages[reqs[r1].committed].id # messages[reqs[r2].committed].id

\* C17: a socket is in no room when its connection opens, and at all times
\* the room of a group holds exactly the connected sockets whose last
\* join_group / leave_group event for the group was a join.
C17_MembershipInvariant ==
  /\ [](\A g \in GroupIds :
          rooms[g] = {c \in Conns : sockets[c] = "connected" /\ g \in journal[c]})
  /\ [][\A c \in Conns :
          (sockets[c] = "idle" /\ sockets'[c] = "connected")
          => \A g \in GroupIds : c \notin rooms'[g]]_vars

\* C17 witness: one socket received a message of a group whose room it has
\* left while it stays in the room of the other group, and another socket
\* that received a message has disconnected and is in no room.
C17_Witness ==
  \E c1, c2 \in Conns : \E g1, g2 \in GroupIds :
     /\ c1 # c2 /\ g1 # g2
     /\ sockets[c1] = "connected"
     /\ c1 \in rooms[g1] /\ c1 \notin rooms[g2]
     /\ \E ev \in Events(c1) : ev.room = g2
     /\ sockets[c2] = "disconnected" /\ Events(c2) # {}
     /\ \A g \in GroupIds : c2 \notin rooms[g]

\* C18: the disconnect of a socket leaves the queued statements, the
\* handlers and the table as they are, so a handler that has not ended
\* always has its statement in the connection's queue; and the fan-out of a
\* send_message reaches the sockets in the room at that moment whether or
\* not the sender is still connected, a disconnected sender not being
\* among them.
C18_DisconnectDoesNotCancel ==
  /\ [](\A r \in Submitted :
          reqs[r].pc # "done" => \E i \in DOMAIN dbQueue : dbQueue[i].req = r)
  /\ [][\A c \in Conns :
          (sockets[c] = "connected" /\ sockets'[c] = "disconnected")
          => UNCHANGED <<dbQueue, reqs, messages, inbox>>]_vars
  /\ [][\A r \in DOMAIN reqs :
          (FanOut(r) /\ reqs[r].kind = "socket")
          => /\ reqs'[r].committed # 0
             /\ \A c \in rooms[reqs[r].groupId] : Receives(c, r)
             /\ sockets[reqs[r].socket] = "disconnected"
                  => inbox'[reqs[r].socket] = inbox[reqs[r].socket]]_vars

\* C18 witness: the message of a send_message is in the table and was
\* delivered to another socket, while its sender has disconnected and has
\* received nothing.
C18_Witness ==
  \E r \in Submitted : \E c \in Conns :
     /\ reqs[r].kind = "socket" /\ reqs[r].emitted
     /\ RowOf(r) # NoRow
     /\ sockets[reqs[r].socket] = "disconnected"
     /\ inbox[reqs[r].socket] = <<>>
     /\ c # reqs[r].socket /\ c \in Delivered(r)

\* C20: a step that changes a socket or a room (connect, join_group,
\* leave_group, disconnect) leaves the messages table, the queued
\* statements and the handlers as they are, and a step of a submit or of a
\* retrieval (its start, the execution of its statement, its failure, its
\* end) leaves every socket and every room as it is.  The groups table is
\* written by no step.
C20_StoreAndMembershipIndependent ==
  /\ [][(rooms' # rooms \/ sockets' # sockets)
          => UNCHANGED <<messages, dbQueue, reqs, schema>>]_vars
  /\ [][(messages' # messages \/ dbQueue' # dbQueue \/ reqs' # reqs)
          => UNCHANGED <<rooms, sockets, journal>>]_vars

\* C20 witness: a retrieval was answered, or a submit failed, for a group
\* that has a subscriber, who received nothing, while another socket has
\* come and gone.
C20_Witness ==
  \E r \in DOMAIN reqs : \E c1, c2 \in Conns :
     /\ reqs[r].pc = "done"
     /\ (reqs[r].kind = "get" /\ reqs[r].status = 200) \/ reqs[r].error # ""
     /\ reqs[r].groupId \in GroupIds
     /\ c1 \in rooms[reqs[r].groupId] /\ inbox[c1] = <<>>
     /\ sockets[c2] = "disconnected"

\* C19: every POST of a message is eventually answered, with 200 and the
\* row it committed or with 500 and an error payload; an answer is the end
\* of the handler and is never followed by a second one.
C19_PostEventuallyAnswered ==
  /\ \A r \in 1..MaxSerial :
        (r \in DOMAIN reqs /\ reqs[r].kind = "post")
          ~> (r \in DOMAIN reqs /\ reqs[r].status \in {200, 500})
  /\ [](\A r \in Submitted :
          reqs[r].kind = "post" =>
            /\ (reqs[r].status # 0) <=> (reqs[r].pc = "done")
            /\ reqs[r].status = 200 => (reqs[r].error = "" /\ reqs[r].rows = <<RowOf(r)>>)
            /\ reqs[r].status = 500 => (reqs[r].error # "" /\ reqs[r].rows = <<>>))
  /\ [][\A r \in DOMAIN reqs :
          reqs[r].status # 0 => reqs'[r] = reqs[r]]_vars

\* C19 witness: a POST whose INSERT succeeded and whose read-back failed
\* was answered, with 500.
C19_Witness ==
  \E r \in Submitted :
     /\ reqs[r].kind = "post"
     /\ reqs[r].error = "select" /\ reqs[r].committed # 0
     /\ reqs[r].status = 500 /\ reqs[r].pc = "done"

====
